---------------------------- MODULE Spec2Model ----------------------------
(***************************************************************************)
(* Extended-range floating point (efp64): a native double holding the sign,*)
(* the fraction and the low EXP_BITS bits of the exponent, and an int64_t  *)
(* holding the rest of the exponent.  Source: src/src/extended-fp/fp.h,    *)
(* efp64-c.h and efp64-cpp.hpp.                                            *)
(*                                                                         *)
(* Number representation of the model.  The integers of the model checker  *)
(* are 32 bits wide, the program's are 64 bits wide and a product of two    *)
(* 53-bit significands has 106 bits.  Wide naturals are therefore kept as   *)
(* little-endian sequences of LIMB_BITS-bit limbs without leading zero      *)
(* limbs (zero is << >>), wide integers as [neg, mag], and a double as its  *)
(* three bit fields [s, e, f]: sign bit, 11-bit biased exponent, 52-bit     *)
(* fraction (a wide natural).  All widths are the program's own.            *)
(***************************************************************************)
EXTENDS Integers, Sequences, FiniteSets, TLC

(***************************************************************************)
(* Wide naturals                                                           *)
(***************************************************************************)
LIMB_BITS == 15
BASE == 32768

Pow2(n) == 2 ^ n

\* The model checker evaluates definitions and arguments on demand.
\* Seq2(v, e) is e, with v evaluated first.
Seq2(v, e) == IF v = v THEN e ELSE e

SetMax(S) == CHOOSE m \in S : \A j \in S : j <= m

\* a without its leading zero limbs
NatNorm(a) ==
    LET nz == {i \in 1..Len(a) : a[i] # 0}
    IN  IF nz = {} THEN << >> ELSE SubSeq(a, 1, SetMax(nz))

NatFromInt(k) ==
    IF k = 0 THEN << >>
    ELSE IF k < BASE THEN << k >>
    ELSE IF k < BASE * BASE THEN << k % BASE, k \div BASE >>
    ELSE << k % BASE, (k \div BASE) % BASE, k \div (BASE * BASE) >>

\* value of a wide natural known to be below 2^30
NatToInt(a) ==
    IF a = << >> THEN 0
    ELSE IF Len(a) = 1 THEN a[1]
    ELSE a[1] + BASE * a[2]

NatLimb(a, i) == IF i <= Len(a) THEN a[i] ELSE 0

\* a + b; the carry into limb i comes from a limb j < i that overflows and
\* passes through limbs that are all ones
NatAdd(a, b) ==
    LET n == (IF Len(a) > Len(b) THEN Len(a) ELSE Len(b)) + 1
        s == [i \in 1..n |-> NatLimb(a, i) + NatLimb(b, i)]
        c == [i \in 1..n |->
                IF \E j \in 1..(i - 1) :
                      s[j] >= BASE /\ \A k \in (j + 1)..(i - 1) : s[k] = BASE - 1
                THEN 1 ELSE 0]
    IN  NatNorm([i \in 1..n |-> (s[i] + c[i]) % BASE])

\* a - b for a >= b; the borrow from limb i comes from a limb j < i
NatSub(a, b) ==
    LET n == Len(a)
        d == [i \in 1..n |-> a[i] - NatLimb(b, i)]
        w == [i \in 1..n |->
                IF \E j \in 1..(i - 1) :
                      d[j] < 0 /\ \A k \in (j + 1)..(i - 1) : d[k] = 0
                THEN 1 ELSE 0]
    IN  NatNorm([i \in 1..n |-> (d[i] - w[i] + BASE) % BASE])

\* -1, 0, 1 as a < b, a = b, a > b
NatCmp(a, b) ==
    IF Len(a) < Len(b) THEN -1
    ELSE IF Len(a) > Len(b) THEN 1
    ELSE LET df == {i \in 1..Len(a) : a[i] # b[i]}
         IN  IF df = {} THEN 0
             ELSE IF a[SetMax(df)] < b[SetMax(df)] THEN -1 ELSE 1

NatLess(a, b) == NatCmp(a, b) < 0
NatLeq(a, b) == NatCmp(a, b) <= 0

\* a * k for 0 <= k < BASE
NatMulSmall(a, k) ==
    NatAdd([i \in 1..Len(a) |-> (a[i] * k) % BASE],
           << 0 >> \o [i \in 1..Len(a) |-> (a[i] * k) \div BASE])

NatShlLimbs(a, n) ==
    IF a = << >> THEN << >> ELSE [i \in 1..n |-> 0] \o a

RECURSIVE NatMulFrom(_, _, _)
NatMulFrom(a, b, i) ==
    IF i > Len(b) THEN << >>
    ELSE NatAdd(NatShlLimbs(NatMulSmall(a, b[i]), i - 1), NatMulFrom(a, b, i + 1))

NatMul(a, b) == NatMulFrom(a, b, 1)

\* a * 2^n
NatShl(a, n) ==
    NatShlLimbs(NatMulSmall(a, Pow2(n % LIMB_BITS)), n \div LIMB_BITS)

\* a \div 2^n
NatShr(a, n) ==
    LET l == n \div LIMB_BITS
        r == n % LIMB_BITS
    IN  IF l >= Len(a) THEN << >>
        ELSE NatNorm([i \in 1..(Len(a) - l) |->
                        (a[i + l] \div Pow2(r))
                        + (NatLimb(a, i + l + 1) % Pow2(r)) * Pow2(LIMB_BITS - r)])

\* a % 2^n
NatLowBits(a, n) ==
    LET l == n \div LIMB_BITS
        m == IF Len(a) < l + 1 THEN Len(a) ELSE l + 1
    IN  NatNorm([i \in 1..m |-> IF i <= l THEN a[i] ELSE a[i] % Pow2(n % LIMB_BITS)])

\* number of significant bits of k, 0 <= k < 2^30
IntBitLen(k) ==
    IF k = 0 THEN 0 ELSE CHOOSE n \in 1..30 : k \div Pow2(n - 1) = 1

\* number of significant bits of a
NatBitLen(a) ==
    IF a = << >> THEN 0
    ELSE LIMB_BITS * (Len(a) - 1) + IntBitLen(a[Len(a)])

NatIsOdd(a) == a # << >> /\ a[1] % 2 = 1

NatPow2(n) == NatShl(<< 1 >>, n)

\* The quotient digit cur \div b, for b with its top limb at least BASE / 2
\* and cur < b * BASE: the estimate from the top limbs is at most 2 too large
\* (Knuth, TAOCP 4.3.1, Theorem B).
NatQuotPick(cur, b, q0) ==
    IF NatLeq(NatMulSmall(b, q0), cur) THEN q0
    ELSE IF NatLeq(NatMulSmall(b, q0 - 1), cur) THEN q0 - 1
    ELSE q0 - 2

NatQuotEstimate(top, lead) ==
    IF top \div lead > BASE - 1 THEN BASE - 1 ELSE top \div lead

NatQuotDigit(cur, b) ==
    NatQuotPick(cur, b, NatQuotEstimate(NatLimb(cur, Len(b) + 1) * BASE + NatLimb(cur, Len(b)),
                                        b[Len(b)]))

\* long division, one limb of a at a time from the top: q the quotient limbs
\* so far, r the remainder so far, cur the dividend of the step, d its digit
RECURSIVE NatDivFrom(_, _, _, _, _)
NatDivDigit(a, b, i, q, cur, d) ==
    Seq2(d, NatDivFrom(a, b, i - 1, << d >> \o q, NatSub(cur, NatMulSmall(b, d))))

NatDivStep(a, b, i, q, cur) == NatDivDigit(a, b, i, q, cur, NatQuotDigit(cur, b))

NatDivFrom(a, b, i, q, r) ==
    IF i = 0 THEN << q, r >>
    ELSE NatDivStep(a, b, i, q, NatAdd(NatShlLimbs(r, 1), NatFromInt(a[i])))

\* the limbs of an above the lowest i are less than bn without division
NatDivBelow(an, bn, i) == NatDivFrom(an, bn, i, << >>, SubSeq(an, i + 1, Len(an)))

NatDivNormalized(an, bn) ==
    NatDivBelow(an, bn, IF Len(an) < Len(bn) THEN Len(an) ELSE Len(an) - Len(bn) + 1)

NatDivResult(d, sh) == << NatNorm(d[1]), NatShr(d[2], sh) >>

NatDivShifted(a, b, sh) ==
    NatDivResult(NatDivNormalized(NatShl(a, sh), NatShl(b, sh)), sh)

\* <<quotient, remainder>> of a by b, b > 0
NatDivMod(a, b) == NatDivShifted(a, b, LIMB_BITS - IntBitLen(b[Len(b)]))

\* Newton's iteration for the integer square root, from x with x * x >= a
RECURSIVE NatSqrtFrom(_, _)
NatSqrtNext(a, x, y) == IF NatLess(y, x) THEN NatSqrtFrom(a, y) ELSE x

NatSqrtFrom(a, x) == NatSqrtNext(a, x, NatShr(NatAdd(x, NatDivMod(a, x)[1]), 1))

\* integer square root
NatSqrt(a) ==
    IF a = << >> THEN << >>
    ELSE NatSqrtFrom(a, NatPow2((NatBitLen(a) + 1) \div 2))

(***************************************************************************)
(* Wide integers (int64_t): [neg |-> BOOLEAN, mag |-> wide natural]         *)
(***************************************************************************)
IntMake(neg, mag) == [neg |-> neg /\ mag # << >>, mag |-> mag]

I64(k) == IF k < 0 THEN IntMake(TRUE, NatFromInt(-k)) ELSE IntMake(FALSE, NatFromInt(k))

\* value of a wide integer known to lie strictly between -2^30 and 2^30
IntToSmall(x) == IF x.neg THEN -NatToInt(x.mag) ELSE NatToInt(x.mag)

IntNeg(x) == IntMake(~x.neg, x.mag)

IntAdd(x, y) ==
    IF x.neg = y.neg THEN IntMake(x.neg, NatAdd(x.mag, y.mag))
    ELSE IF NatLeq(y.mag, x.mag) THEN IntMake(x.neg, NatSub(x.mag, y.mag))
    ELSE IntMake(y.neg, NatSub(y.mag, x.mag))

IntSub(x, y) == IntAdd(x, IntNeg(y))

IntCmp(x, y) ==
    IF x.neg /\ ~y.neg THEN -1
    ELSE IF ~x.neg /\ y.neg THEN 1
    ELSE IF x.neg THEN NatCmp(y.mag, x.mag)
    ELSE NatCmp(x.mag, y.mag)

IntLess(x, y) == IntCmp(x, y) < 0
IntLeq(x, y) == IntCmp(x, y) <= 0

\* x mod 2^n, in 0 .. 2^n - 1 (the low n bits of the two's complement of x),
\* from r, the low n bits of the magnitude of x
IntComplement(neg, r, n) == IF neg /\ r # << >> THEN NatSub(NatPow2(n), r) ELSE r

IntLowBits(x, n) == IntComplement(x.neg, NatLowBits(x.mag, n), n)

\* C's x / 2 (truncation toward zero)
IntHalf(x) == IntMake(x.neg, NatShr(x.mag, 1))

INT64_BITS == 64
INT64_MIN == IntMake(TRUE, NatPow2(INT64_BITS - 1))
INT64_MAX == IntMake(FALSE, NatSub(NatPow2(INT64_BITS - 1), << 1 >>))
InInt64(x) == NatBitLen(x.mag) < INT64_BITS \/ x = INT64_MIN

(***************************************************************************)
(* Native doubles (fp64_t), IEEE-754 binary64, as bit fields               *)
(*   [s |-> sign bit, e |-> biased exponent, f |-> fraction]               *)
(* and the format parameters of fp.h                                       *)
(***************************************************************************)
FP64_EXP_OFFSET == 52
FP64_SIGN_OFFSET == 63
FP64_EXP_MASK == 2047
FP64_BIAS == 1023
FP64_MAX_EXPONENT == FP64_EXP_MASK - FP64_BIAS - 1

Fp(s, e, f) == [s |-> s, e |-> e, f |-> f]

FpZero(s) == Fp(s, 0, << >>)
FpOne == Fp(0, FP64_BIAS, << >>)
FpInf(s) == Fp(s, FP64_EXP_MASK, << >>)
\* the NaN an invalid operation produces on the build target (x86-64 SSE2)
FpNaN == Fp(1, FP64_EXP_MASK, NatPow2(FP64_EXP_OFFSET - 1))

IsNan(x) == x.e = FP64_EXP_MASK /\ x.f # << >>
IsInf(x) == x.e = FP64_EXP_MASK /\ x.f = << >>
FpIsZero(x) == x.e = 0 /\ x.f = << >>
FpIsSubnormal(x) == x.e = 0 /\ x.f # << >>
FpIsNormal(x) == x.e > 0 /\ x.e < FP64_EXP_MASK

\* a finite non-zero double is FpSig(x) * 2^FpExp(x)
FpSig(x) == IF x.e = 0 THEN x.f ELSE NatAdd(NatPow2(FP64_EXP_OFFSET), x.f)
FpExp(x) == (IF x.e = 0 THEN 1 ELSE x.e) - FP64_BIAS - FP64_EXP_OFFSET

\* The double with sign s and value r * 2^lsb, for r < 2^(FP64_EXP_OFFSET + 2)
\* and lsb the exponent of the last place of the result
FpPack(s, lsb, r) ==
    IF NatBitLen(r) <= FP64_EXP_OFFSET THEN Fp(s, 0, r)
    ELSE IF lsb + FP64_BIAS + NatBitLen(r) - 1 >= FP64_EXP_MASK THEN FpInf(s)
    ELSE Fp(s, lsb + FP64_BIAS + NatBitLen(r) - 1, NatLowBits(r, FP64_EXP_OFFSET))

\* 1 when (m + t) / 2^sh rounds up to the next integer, ties to even
FpRoundUp(m, sh, sticky) ==
    IF \/ NatLess(NatPow2(sh - 1), NatLowBits(m, sh))
       \/ /\ NatLowBits(m, sh) = NatPow2(sh - 1)
          /\ (sticky \/ NatIsOdd(NatShr(m, sh)))
    THEN << 1 >> ELSE << >>

FpRoundAt(s, m, q, sticky, lsb) ==
    FpPack(s, lsb, IF lsb <= q THEN NatShl(m, q - lsb)
                   ELSE NatAdd(NatShr(m, lsb - q), FpRoundUp(m, lsb - q, sticky)))

\* The double nearest to (m + t) * 2^q, ties to even, where m > 0 is a wide
\* natural and 0 <= t < 1 with t > 0 exactly when sticky; with sticky set m
\* has at least FP64_EXP_OFFSET + 3 bits.  The last place of the result is
\* FP64_EXP_OFFSET below the top bit of m, or that of the subnormals.
FpRound(s, m, q, sticky) ==
    FpRoundAt(s, m, q, sticky,
              IF q + NatBitLen(m) - 1 - FP64_EXP_OFFSET < 1 - FP64_BIAS - FP64_EXP_OFFSET
              THEN 1 - FP64_BIAS - FP64_EXP_OFFSET
              ELSE q + NatBitLen(m) - 1 - FP64_EXP_OFFSET)

FpNegate(x) == Fp(1 - x.s, x.e, x.f)
Fabs(x) == Fp(0, x.e, x.f)

\* C's x == y and x < y on doubles
FpEq(x, y) ==
    /\ ~IsNan(x) /\ ~IsNan(y)
    /\ \/ FpIsZero(x) /\ FpIsZero(y)
       \/ x = y

FpMagLess(x, y) == x.e < y.e \/ (x.e = y.e /\ NatLess(x.f, y.f))

FpLess(x, y) ==
    /\ ~IsNan(x) /\ ~IsNan(y)
    /\ ~(FpIsZero(x) /\ FpIsZero(y))
    /\ IF x.s # y.s THEN x.s = 1
       ELSE IF x.s = 0 THEN FpMagLess(x, y)
       ELSE FpMagLess(y, x)

FpLeq(x, y) == FpLess(x, y) \/ FpEq(x, y)

\* x * y
FpMul(x, y) ==
    IF IsNan(x) \/ IsNan(y) THEN FpNaN
    ELSE IF IsInf(x) \/ IsInf(y)
         THEN (IF FpIsZero(x) \/ FpIsZero(y) THEN FpNaN ELSE FpInf((x.s + y.s) % 2))
    ELSE IF FpIsZero(x) \/ FpIsZero(y) THEN FpZero((x.s + y.s) % 2)
    ELSE FpRound((x.s + y.s) % 2, NatMul(FpSig(x), FpSig(y)), FpExp(x) + FpExp(y), FALSE)

\* mx * 2^qd / my, with k more quotient bits than the result keeps
FpDivRound(s, qr, q) == FpRound(s, qr[1], q, qr[2] # << >>)

FpDivShifted(s, mx, my, qd, k) == FpDivRound(s, NatDivMod(NatShl(mx, k), my), qd - k)

FpDivFinite(s, mx, my, qd) ==
    FpDivShifted(s, mx, my, qd, FP64_EXP_OFFSET + 4 + NatBitLen(my) - NatBitLen(mx))

\* x / y
FpDiv(x, y) ==
    IF IsNan(x) \/ IsNan(y) THEN FpNaN
    ELSE IF IsInf(x) THEN (IF IsInf(y) THEN FpNaN ELSE FpInf((x.s + y.s) % 2))
    ELSE IF IsInf(y) THEN FpZero((x.s + y.s) % 2)
    ELSE IF FpIsZero(y) THEN (IF FpIsZero(x) THEN FpNaN ELSE FpInf((x.s + y.s) % 2))
    ELSE IF FpIsZero(x) THEN FpZero((x.s + y.s) % 2)
    ELSE FpDivFinite((x.s + y.s) % 2, FpSig(x), FpSig(y), FpExp(x) - FpExp(y))

\* a finite non-zero term (-1)^s * m * 2^q
Term(s, m, q) == [s |-> s, m |-> m, q |-> q]

\* a + b for terms with a.q >= b.q, from big * 2^q, the larger term at the
\* last place of the smaller one.  far: b is below FP64_EXP_OFFSET + 12 more
\* places of a and only tells on which side of a the sum lies.
FpSumAt(a, big, q, b, far) ==
    IF ~far /\ a.s # b.s /\ big = b.m THEN FpZero(0)
    ELSE FpRound(IF a.s = b.s \/ far \/ NatLess(b.m, big) THEN a.s ELSE b.s,
                 IF a.s = b.s THEN (IF far THEN big ELSE NatAdd(big, b.m))
                 ELSE IF far THEN NatSub(big, << 1 >>)
                 ELSE IF NatLess(b.m, big) THEN NatSub(big, b.m)
                 ELSE NatSub(b.m, big),
                 q, far)

FpSumFar(a, b, far) ==
    FpSumAt(a, NatShl(a.m, IF far THEN FP64_EXP_OFFSET + 12 ELSE a.q - b.q),
            IF far THEN a.q - (FP64_EXP_OFFSET + 12) ELSE b.q, b, far)

FpSumAligned(a, b) == FpSumFar(a, b, a.q - b.q > 3 * FP64_EXP_OFFSET + 14)

\* the double nearest to the sum of two terms
FpSum(a, b) ==
    FpSumAligned(IF a.q >= b.q THEN a ELSE b, IF a.q >= b.q THEN b ELSE a)

\* fma(x, y, z): x * y + z with a single rounding
FMA64(x, y, z) ==
    IF IsNan(x) \/ IsNan(y) \/ IsNan(z) THEN FpNaN
    ELSE IF IsInf(x) \/ IsInf(y)
         THEN (IF FpIsZero(x) \/ FpIsZero(y) THEN FpNaN
               ELSE IF IsInf(z) /\ z.s # (x.s + y.s) % 2 THEN FpNaN
               ELSE FpInf((x.s + y.s) % 2))
    ELSE IF IsInf(z) THEN z
    ELSE IF FpIsZero(x) \/ FpIsZero(y)
         THEN (IF FpIsZero(z) THEN FpZero(IF (x.s + y.s) % 2 = 1 /\ z.s = 1 THEN 1 ELSE 0)
               ELSE z)
    ELSE IF FpIsZero(z) THEN FpMul(x, y)
    ELSE FpSum(Term((x.s + y.s) % 2, NatMul(FpSig(x), FpSig(y)), FpExp(x) + FpExp(y)),
               Term(z.s, FpSig(z), FpExp(z)))

\* sqrt(m * 2^q) for q even, from r the integer square root of m
FpSqrtRound(m, r, q) == FpRound(0, r, q \div 2, NatMul(r, r) # m)

FpSqrtScaled(m, q) == FpSqrtRound(m, NatSqrt(m), q)

FpSqrtFinite(mx, qx, odd) ==
    FpSqrtScaled(NatShl(mx, 2 * FP64_EXP_OFFSET + 8 + odd),
                 qx - (2 * FP64_EXP_OFFSET + 8) - odd)

\* sqrt(x)
FpSqrt(x) ==
    IF IsNan(x) THEN FpNaN
    ELSE IF FpIsZero(x) THEN x
    ELSE IF x.s = 1 THEN FpNaN
    ELSE IF IsInf(x) THEN x
    ELSE FpSqrtFinite(FpSig(x), FpExp(x), FpExp(x) % 2)

\* (fp64_t) n for an int64_t n
FpFromInt(n) ==
    IF n.mag = << >> THEN FpZero(0)
    ELSE FpRound(IF n.neg THEN 1 ELSE 0, n.mag, 0, FALSE)

(***************************************************************************)
(* int64_t arithmetic of the exponent field: two's complement, 64 bits     *)
(***************************************************************************)
\* the int64_t whose two's complement is low, 0 <= low < 2^INT64_BITS
Wrap64Low(low) ==
    IF NatBitLen(low) < INT64_BITS THEN IntMake(FALSE, low)
    ELSE IntMake(TRUE, NatSub(NatPow2(INT64_BITS), low))

\* the int64_t with the same low INT64_BITS bits as x
Wrap64(x) == IF InInt64(x) THEN x ELSE Wrap64Low(IntLowBits(x, INT64_BITS))

I64Add(x, y) == Wrap64(IntAdd(x, y))
I64Sub(x, y) == Wrap64(IntSub(x, y))

(***************************************************************************)
(* fp.h: access to the fields of a double                                  *)
(***************************************************************************)
fp64_get_biased_exponent(x) == x.e

fp64_get_exponent(x) == I64(fp64_get_biased_exponent(x) - FP64_BIAS)

fp64_get_sign(x) == x.s

fp64_get_fraction(x) == x.f

fp64_exponent_below(exp) == IntLeq(exp, I64(-FP64_BIAS))

fp64_exponent_above(exp) == IntLeq(I64(FP64_EXP_MASK - FP64_BIAS), exp)

\* the double with the bits frac + (bexp << FP64_EXP_OFFSET) +
\* (sign << FP64_SIGN_OFFSET) in 64 bits, bexp given by its low 12 bits: the
\* low 11 bits are the exponent field, the next bit adds to the sign bit
fp64_from_bits(sign, bexp, frac) ==
    Fp((sign + bexp \div (FP64_EXP_MASK + 1)) % 2, bexp % (FP64_EXP_MASK + 1), frac)

fp64_assemble(sign, exp, frac) ==
    fp64_from_bits(sign,
                   NatToInt(IntLowBits(IntAdd(exp, I64(FP64_BIAS)),
                                       FP64_SIGN_OFFSET - FP64_EXP_OFFSET + 1)),
                   frac)

fp64_replace_exponent(x, exp) ==
    fp64_assemble(fp64_get_sign(x), exp, fp64_get_fraction(x))

fp64_zero_exponent(x) == Fp(x.s, FP64_BIAS, x.f)

fp64_infinity(sign) == fp64_assemble(sign, I64(FP64_EXP_MASK - FP64_BIAS), << >>)

fp64_power2(p) ==
    IF IntLeq(p, I64(-FP64_BIAS)) THEN FpZero(0)
    ELSE fp64_assemble(0, p, << >>)

(***************************************************************************)
(* efp64-c.h: an extended value is [fp |-> double, exp |-> int64_t]         *)
(***************************************************************************)
\* x with its low bits cleared, and the low bits of x
lo_part(x, bits) == IntMake(FALSE, IntLowBits(x, bits))
hi_part(x, bits) == IntSub(x, lo_part(x, bits))

EXP_BITS == 6
EXP_MODULUS == Pow2(EXP_BITS)
ZEXP == hi_part(IntHalf(INT64_MIN), EXP_BITS)
EFP64_MAX_MUL == FP64_MAX_EXPONENT \div EXP_MODULUS - 2

efp64_collect(fp, exp) == [fp |-> fp, exp |-> exp]

efp64_is_zero(a) == FpEq(a.fp, FpZero(0))

efp64_zero == efp64_collect(FpZero(0), ZEXP)

efp64_is_valid(a) == ~IsNan(a.fp) /\ ~IsInf(a.fp)

efp64_full_exponent(val) == I64Add(val.exp, fp64_get_exponent(val.fp))

efp64_zeroed_fraction(val) == fp64_zero_exponent(val.fp)

\* a value left as it is, where efp64_canonicalize would renormalise it
efp64_left_as_is(a) == a

\* a canonicalize that renormalises fp and forgets to move exp to the window
efp64_canonicalize_fp_only(a, nexp) ==
    efp64_collect(fp64_replace_exponent(a.fp, lo_part(nexp, EXP_BITS)), a.exp)

\* efp64_canonicalize from nexp, the full exponent of a
efp64_canonicalize_at(a, nexp) ==
    efp64_collect(fp64_replace_exponent(a.fp, lo_part(nexp, EXP_BITS)),
                  hi_part(nexp, EXP_BITS))

efp64_canonicalize(a) ==
    IF efp64_is_zero(a) THEN efp64_zero
    ELSE efp64_canonicalize_at(a, efp64_full_exponent(a))

\* a with its exponent lowered (fp scaled up), and raised (fp scaled down)
efp64_scaled_up(a) ==
    efp64_collect(FpMul(a.fp, fp64_power2(I64(EXP_MODULUS))),
                  I64Sub(a.exp, I64(EXP_MODULUS)))

efp64_scaled_down(a) ==
    efp64_collect(FpMul(a.fp, fp64_power2(I64(-EXP_MODULUS))),
                  I64Add(a.exp, I64(EXP_MODULUS)))

efp64_quick_canonicalize(a) ==
    IF FpLess(Fabs(a.fp), FpOne) THEN efp64_scaled_up(a)
    ELSE IF FpLeq(fp64_power2(I64(EXP_MODULUS)), Fabs(a.fp)) THEN efp64_scaled_down(a)
    ELSE a

efp64_quick_down_canonicalize(a) ==
    IF FpLeq(fp64_power2(I64(EXP_MODULUS)), Fabs(a.fp)) THEN efp64_scaled_down(a)
    ELSE a

efp64_quick_up_canonicalize(a) ==
    IF FpLess(Fabs(a.fp), FpOne) THEN efp64_scaled_up(a)
    ELSE a

efp64_from_fp64(dval) == efp64_canonicalize(efp64_collect(dval, I64(0)))

\* efp64_to_fp64 from full_exp, the full exponent of eval
efp64_to_fp64_at(eval, full_exp) ==
    IF fp64_exponent_below(full_exp) THEN FpZero(0)
    ELSE IF fp64_exponent_above(full_exp) THEN fp64_infinity(fp64_get_sign(eval.fp))
    ELSE fp64_replace_exponent(eval.fp, full_exp)

efp64_to_fp64(eval) ==
    IF efp64_is_zero(eval) THEN FpZero(0)
    ELSE efp64_to_fp64_at(eval, efp64_full_exponent(eval))

efp64_is_equal(a, b) ==
    IF efp64_is_zero(a) THEN efp64_is_zero(b)
    ELSE FpEq(a.fp, b.fp) /\ a.exp = b.exp

efp64_negate(a) ==
    IF efp64_is_zero(a) THEN a
    ELSE efp64_collect(FpNegate(a.fp), a.exp)

\* nval of efp64_add, before it is canonicalized
efp64_add_nval(a, b) ==
    IF IntLess(b.exp, a.exp)
    THEN efp64_collect(FMA64(b.fp, fp64_power2(I64Sub(b.exp, a.exp)), a.fp), a.exp)
    ELSE efp64_collect(FMA64(a.fp, fp64_power2(I64Sub(a.exp, b.exp)), b.fp), b.exp)

efp64_add(a, b) == efp64_quick_canonicalize(efp64_add_nval(a, b))

efp64_quick_mul(a, b) == efp64_collect(FpMul(a.fp, b.fp), I64Add(a.exp, b.exp))

efp64_mul(a, b) == efp64_quick_down_canonicalize(efp64_quick_mul(a, b))

efp64_fma(a, b, c) == efp64_add(efp64_mul(a, b), c)

\* nval of efp64_div, before it is canonicalized
efp64_div_nval(a, b) == efp64_collect(FpDiv(a.fp, b.fp), I64Sub(a.exp, b.exp))

efp64_div(a, b) == efp64_quick_up_canonicalize(efp64_div_nval(a, b))

\* efp64_cmp from sa and sb: a.fp < 0 and b.fp < 0
efp64_cmp_signed(a, b, sa, sb) ==
    IF sa /\ ~sb THEN -1
    ELSE IF ~sa /\ sb THEN 1
    ELSE IF IntLess(b.exp, a.exp) THEN (IF sa THEN -1 ELSE 1)
    ELSE IF IntLess(a.exp, b.exp) THEN (IF sa THEN 1 ELSE -1)
    ELSE IF FpLess(a.fp, b.fp) THEN -1
    ELSE IF FpLess(b.fp, a.fp) THEN 1
    ELSE 0

efp64_cmp(a, b) ==
    efp64_cmp_signed(a, b, FpLess(a.fp, FpZero(0)), FpLess(b.fp, FpZero(0)))

\* efp64_sqrt without its test for a negative operand
efp64_sqrt_unguarded(a) ==
    IF efp64_is_zero(a) THEN efp64_zero
    ELSE efp64_canonicalize(efp64_collect(FpSqrt(a.fp), IntHalf(a.exp)))

efp64_sqrt(a) ==
    IF efp64_is_zero(a) \/ FpLess(a.fp, FpZero(0)) THEN efp64_zero
    ELSE efp64_canonicalize(efp64_collect(FpSqrt(a.fp), IntHalf(a.exp)))

efp64_scale_power2(val, power) == efp64_collect(val.fp, I64Add(val.exp, power))

\* the value of a call of the library's log2, which the model does not compute
LibraryLog2 == "log2"

\* efp64_log2d with (fp64_t) a.exp in place of (fp64_t) e
efp64_log2d_of_exp(a) ==
    IF FpLeq(efp64_zeroed_fraction(a), FpZero(0)) THEN FpZero(0)
    ELSE IF FpEq(efp64_zeroed_fraction(a), FpOne) THEN FpFromInt(a.exp)
    ELSE LibraryLog2

\* efp64_log2d: the branches that do not call log2
efp64_log2d(a) ==
    IF FpLeq(efp64_zeroed_fraction(a), FpZero(0)) THEN FpZero(0)
    ELSE IF FpEq(efp64_zeroed_fraction(a), FpOne) THEN FpFromInt(efp64_full_exponent(a))
    ELSE LibraryLog2

(***************************************************************************)
(* efp64-c.h: text to extended value.  A text is a sequence of characters, *)
(* each a string of length one; NUL ends it.                               *)
(***************************************************************************)
NUL == "NUL"

Digits == << "0", "1", "2", "3", "4", "5", "6", "7", "8", "9" >>

isdigit(c) == \E i \in 1..Len(Digits) : Digits[i] = c

isspace(c) == c = " "

DigitValue(c) == (CHOOSE i \in 1..Len(Digits) : Digits[i] = c) - 1

\* s[p], p counted from 0, and NUL past the end
CharAt(s, p) == IF p < Len(s) THEN s[p + 1] ELSE NUL

\* the text at s + p
TextFrom(s, p) == SubSeq(s, p + 1, Len(s))

RECURSIVE SkipSpaces(_, _)
SkipSpaces(s, p) == IF isspace(CharAt(s, p)) THEN SkipSpaces(s, p + 1) ELSE p

IsSign(c) == c = "+" \/ c = "-"

\* the digits from p on: << position after them, n followed by them, count >>
RECURSIVE ScanDigits(_, _, _, _)
ScanDigits(s, p, n, cnt) ==
    IF isdigit(CharAt(s, p))
    THEN Seq2(n, ScanDigits(s, p + 1,
                            NatAdd(NatMulSmall(n, Len(Digits)),
                                   NatFromInt(DigitValue(CharAt(s, p)))),
                            cnt + 1))
    ELSE << p, n, cnt >>

RECURSIVE NatPow10(_)
NatPow10(k) == IF k = 0 THEN << 1 >> ELSE NatMulSmall(NatPow10(k - 1), Len(Digits))

\* the double nearest to n / d
FpRatio(s, n, d) ==
    IF n = << >> THEN FpZero(s)
    ELSE IF NatBitLen(n) > NatBitLen(d) + FP64_EXP_OFFSET + 4
         THEN FpDivRound(s, NatDivMod(n, d), 0)
         ELSE FpDivFinite(s, n, d, 0)

Scanned(ok, v) == [ok |-> ok, v |-> v]

\* sscanf(buf, "%lf", &v) on decimal text: whether it assigned, and v
ScanDoubleParts(s, neg, ip, fr) ==
    IF ip[3] + fr[3] = 0 THEN Scanned(FALSE, FpZero(0))
    ELSE Scanned(TRUE, FpRatio(IF neg THEN 1 ELSE 0, fr[2], NatPow10(fr[3])))

ScanDoubleInt(s, neg, ip) ==
    ScanDoubleParts(s, neg, ip,
                    IF CharAt(s, ip[1]) = "." THEN ScanDigits(s, ip[1] + 1, ip[2], 0)
                    ELSE << ip[1], ip[2], 0 >>)

ScanDoubleAt(s, p) ==
    ScanDoubleInt(s, CharAt(s, p) = "-",
                  ScanDigits(s, IF IsSign(CharAt(s, p)) THEN p + 1 ELSE p, << >>, 0))

ScanDouble(s) == ScanDoubleAt(s, SkipSpaces(s, 0))

\* the long long nearest to x
ClampLongLong(x) ==
    IF InInt64(x) THEN x ELSE IF x.neg THEN INT64_MIN ELSE INT64_MAX

\* sscanf(s, "%lld", &v): whether it assigned, and v
ScanLongLongDigits(neg, dg) ==
    IF dg[3] = 0 THEN Scanned(FALSE, I64(0))
    ELSE Scanned(TRUE, ClampLongLong(IntMake(neg, dg[2])))

ScanLongLongAt(s, p) ==
    ScanLongLongDigits(CharAt(s, p) = "-",
                       ScanDigits(s, IF IsSign(CharAt(s, p)) THEN p + 1 ELSE p, << >>, 0))

ScanLongLong(s) == ScanLongLongAt(s, SkipSpaces(s, 0))

\* the loop of xpe, exp >= 0
RECURSIVE xpe_loop(_, _, _)
xpe_loop(power, result, exp) ==
    IF exp = << >> THEN result
    ELSE Seq2(<< power, result >>,
              xpe_loop(efp64_mul(power, power),
                       IF NatIsOdd(exp) THEN efp64_mul(result, power) ELSE result,
                       NatShr(exp, 1)))

xpe(x, exp) ==
    IF FpIsZero(x) THEN efp64_zero
    ELSE xpe_loop(efp64_from_fp64(IF exp.neg THEN FpDiv(FpOne, x) ELSE x),
                  efp64_from_fp64(FpOne), exp.mag)

\* 10.0
FpTen == Fp(0, FP64_BIAS + 3, NatPow2(FP64_EXP_OFFSET - 2))

ep10(exp) == xpe(FpTen, exp)

\* sizeof(buf) in efp64_sscanf and in efp64_fscanf
SSCANF_BUF == 50
FSCANF_BUF == 100

\* i after the first loop of efp64_sscanf
RECURSIVE SscanfCopy(_, _)
SscanfCopy(s, i) ==
    IF i < SSCANF_BUF /\ CharAt(s, i) \notin { NUL, "e", "E" }
    THEN SscanfCopy(s, i + 1)
    ELSE i

\* what efp64_sscanf returns and stores, and the index of buf that got the NUL
Stored(ret, res, nul) == [ret |-> ret, res |-> res, nul |-> nul]

SscanfExponent(fp, ll, i) ==
    IF ll.ok
    THEN Stored(1, efp64_canonicalize(efp64_mul(efp64_collect(fp, ZEXP), ep10(ll.v))), i)
    ELSE Stored(0, efp64_zero, i)

SscanfMantissa(s, i, m) ==
    IF ~m.ok THEN Stored(0, efp64_zero, i)
    ELSE IF CharAt(s, i) = NUL THEN Stored(1, efp64_canonicalize(efp64_collect(m.v, ZEXP)), i)
    ELSE SscanfExponent(m.v, ScanLongLong(TextFrom(s, i + 1)), i)

efp64_sscanf_at(s, i) == SscanfMantissa(s, i, ScanDouble(SubSeq(s, 1, i)))

efp64_sscanf(s) == efp64_sscanf_at(s, SscanfCopy(s, 0))

\* i after the second loop of efp64_fscanf, which reads the file from p on
RECURSIVE FscanfCopy(_, _, _)
FscanfCopy(file, p, i) ==
    IF /\ CharAt(file, p) # NUL
       /\ i < FSCANF_BUF
       /\ ~isspace(CharAt(file, p))
       /\ isdigit(CharAt(file, p)) \/ CharAt(file, p) \in { "e", "E", "." }
    THEN FscanfCopy(file, p + 1, i + 1)
    ELSE i

\* the first character read by the second loop: the first loop has read the
\* white space and one character more
FscanfStart(file) == SkipSpaces(file, 0) + 1

\* buf of efp64_fscanf as efp64_sscanf gets it
FscanfBuf(file) ==
    SubSeq(file, FscanfStart(file) + 1,
           FscanfStart(file) + FscanfCopy(file, FscanfStart(file), 0))

(***************************************************************************)
(* Predicates on extended values                                           *)
(***************************************************************************)
\* the double 2^p, for -1023 < p < 1024
Power2(p) == Fp(0, p + FP64_BIAS, << >>)

\* exp a multiple of EXP_MODULUS and the exponent of fp in 0..EXP_MODULUS-1
IsCanonicalNonZero(a) ==
    /\ lo_part(a.exp, EXP_BITS) = I64(0)
    /\ a.fp.e >= FP64_BIAS
    /\ a.fp.e < FP64_BIAS + EXP_MODULUS

IsCanonical(a) == a = efp64_zero \/ IsCanonicalNonZero(a)

\* exactly one of three
ExactlyOne(p, q, r) == (p /\ ~q /\ ~r) \/ (~p /\ q /\ ~r) \/ (~p /\ ~q /\ r)

(***************************************************************************)
(* State.                                                                  *)
(*   acc, mem  two EFP64 objects of a client                               *)
(*   last      the last library call: its name, its operands, its result   *)
(*   steps     the number of library calls made                            *)
(*   src       the native double acc was converted from, while acc is the  *)
(*             unchanged result of that conversion                         *)
(*   val       the array of a sequence product: val.len elements, element  *)
(*             i being val.pat[i mod Len(val.pat)]                         *)
(*   todo      the reductions the client has still to call                 *)
(*   call      the frame of the reduction that is running: the function,   *)
(*             where its result goes, and its locals i, count, prod and    *)
(*             result                                                      *)
(*   out       the results of the reductions that have returned            *)
(*   lg        the frame of a running efp64_log2d: its locals e, log_val,  *)
(*             dlog and log_weight, and the iterations of its loop         *)
(*   sc        the frame of a running efp64_sscanf or efp64_fscanf: the    *)
(*             text, the position in it, the index i into buf, and what    *)
(*             the call stored and returned                                *)
(***************************************************************************)
VARIABLES acc, mem, last, steps, src, val, todo, call, out, lg, sc

objVars == << acc, mem, last, steps, src >>
seqVars == << val, todo, call, out >>
ioVars == << lg, sc >>
vars == << acc, mem, last, steps, src, val, todo, call, out, lg, sc >>

Called(op, args, res) == [op |-> op, args |-> args, res |-> res]

NoSrc == [ok |-> FALSE, d |-> FpZero(0)]

Frame(fn, ret, i, count, prod, result) ==
    [fn |-> fn, ret |-> ret, i |-> i, count |-> count, prod |-> prod, result |-> result]

NoCall == Frame("none", "none", 0, 0, << >>, efp64_zero)

None == [ok |-> FALSE, v |-> efp64_zero]
Some(v) == [ok |-> TRUE, v |-> v]

LogFrame(pc, e, log_val, dlog, log_weight, uflow, iters, wrapped, res) ==
    [pc |-> pc, e |-> e, log_val |-> log_val, dlog |-> dlog, log_weight |-> log_weight,
     uflow |-> uflow, iters |-> iters, wrapped |-> wrapped, res |-> res]

NoLog == LogFrame("none", I64(0), << >>, FpZero(0), FpZero(0), FALSE, 0, FALSE, FpZero(0))

ScanFrame(pc, fn, text, nul, fnul, ret, res) ==
    [pc |-> pc, fn |-> fn, text |-> text, nul |-> nul, fnul |-> fnul, ret |-> ret,
     res |-> res]

NoScan == ScanFrame("none", "none", << >>, -1, -1, 0, efp64_zero)

\* no sequence product, logarithm or text conversion in progress
SeqIdle ==
    /\ lg = NoLog
    /\ sc = NoScan
    /\ val = [pat |-> << >>, len |-> 0]
    /\ todo = << >>
    /\ call = NoCall
    /\ out = [slow |-> None, x1 |-> None, x4 |-> None, mul_seq |-> None, div |-> None]

(***************************************************************************)
(* Spec: a client that holds two EFP64 objects and applies the arithmetic  *)
(* of efp64-cpp.hpp to them, the result going to acc.                      *)
(***************************************************************************)
\* number of library calls in a run
MaxSteps == 2

\* the doubles the objects are constructed from
Doubles == { FpZero(0), FpNegate(FpOne), Power2(192) }

\* the shift counts of operator<< and operator>>
Powers == { I64(1), I64(-EXP_MODULUS) }

Init ==
    /\ \E d1 \in Doubles, d2 \in Doubles :
          /\ acc = efp64_from_fp64(d1)
          /\ mem = efp64_from_fp64(d2)
          /\ last = Called("from_fp64", << d1 >>, efp64_from_fp64(d1))
    /\ steps = 0
    /\ src = NoSrc
    /\ SeqIdle

\* acc = op(args)
Apply(op, args, res) ==
    /\ steps < MaxSteps
    /\ steps' = steps + 1
    /\ acc' = res
    /\ last' = Called(op, args, res)
    /\ UNCHANGED << mem, src, seqVars, ioVars >>

FromFp64 == \E d \in Doubles : Apply("from_fp64", << d >>, efp64_from_fp64(d))

Negate == Apply("negate", << acc >>, efp64_negate(acc))

Add ==
    \E ab \in { << acc, mem >>, << mem, acc >> } :
        Apply("add", ab, efp64_add(ab[1], ab[2]))

Mul ==
    \E ab \in { << acc, mem >>, << mem, acc >> } :
        Apply("mul", ab, efp64_mul(ab[1], ab[2]))

Div ==
    \E ab \in { << acc, mem >>, << mem, acc >> } :
        Apply("div", ab, efp64_div(ab[1], ab[2]))

Fma == Apply("fma", << acc, mem, acc >>, efp64_fma(acc, mem, acc))

Sqrt == Apply("sqrt", << acc >>, efp64_sqrt(acc))

ScalePower2 ==
    \E p \in Powers :
        Apply("scale_power2", << acc, p >>, efp64_scale_power2(acc, p))

\* the client keeps the current value: mem = acc
Store ==
    /\ mem # acc
    /\ mem' = acc
    /\ UNCHANGED << acc, last, steps, src, seqVars, ioVars >>

Next ==
    \/ FromFp64
    \/ Negate
    \/ Add
    \/ Mul
    \/ Div
    \/ Fma
    \/ Sqrt
    \/ ScalePower2
    \/ Store

Spec == Init /\ [][Next]_vars

(***************************************************************************)
(* Properties of Spec                                                      *)
(***************************************************************************)
\* the operations that take and return extended values
PublicOps == { "from_fp64", "add", "negate", "mul", "div", "fma", "sqrt", "scale_power2" }

\* the extended operands of a call are canonical
OperandsCanonical(c) ==
    IF c.op = "from_fp64" THEN TRUE
    ELSE IF c.op = "scale_power2" THEN IsCanonical(c.args[1])
    ELSE \A k \in 1..Len(c.args) : IsCanonical(c.args[k])

\* C1: after a public operation on canonical operands, a finite non-zero
\* result is canonical: exp a multiple of EXP_MODULUS, the exponent of fp in
\* 0..63.
C1_CanonicalAfterPublicOperation ==
    (/\ last.op \in PublicOps
     /\ OperandsCanonical(last)
     /\ efp64_is_valid(last.res)
     /\ ~efp64_is_zero(last.res))
        => IsCanonicalNonZero(last.res)

\* a is zero or its full exponent is one a native double has
FitsNative(a) ==
    \/ efp64_is_zero(a)
    \/ /\ ~fp64_exponent_below(efp64_full_exponent(a))
       /\ ~fp64_exponent_above(efp64_full_exponent(a))

\* operator<, operator== and operator> of EFP64 on a and b
EfpLess(a, b) == efp64_cmp(a, b) < 0
EfpEqual(a, b) == efp64_is_equal(a, b)
EfpGreater(a, b) == efp64_cmp(a, b) > 0

\* C3: for finite values a and b that public operations produce, exactly one
\* of a < b, a == b, a > b holds, and when both fit in the native range the
\* outcome is that of comparing their native conversions.
C3_ComparisonTrichotomy ==
    (efp64_is_valid(acc) /\ efp64_is_valid(mem)) =>
        /\ ExactlyOne(EfpLess(acc, mem), EfpEqual(acc, mem), EfpGreater(acc, mem))
        /\ (FitsNative(acc) /\ FitsNative(mem)) =>
              /\ EfpLess(acc, mem) <=> FpLess(efp64_to_fp64(acc), efp64_to_fp64(mem))
              /\ EfpEqual(acc, mem) <=> FpEq(efp64_to_fp64(acc), efp64_to_fp64(mem))
              /\ EfpGreater(acc, mem) <=> FpLess(efp64_to_fp64(mem), efp64_to_fp64(acc))

\* a finite value above zero, below zero
IsPositive(a) == efp64_is_valid(a) /\ FpLess(FpZero(0), a.fp)
IsNegative(a) == efp64_is_valid(a) /\ FpLess(a.fp, FpZero(0))

\* z, a value with significand 0.0, is ordered against a as the one zero
OrderedAsZero(z, a) ==
    /\ efp64_is_zero(a) => efp64_cmp(z, a) = 0
    /\ IsPositive(a) => efp64_cmp(z, a) = -1
    /\ IsNegative(a) => efp64_cmp(z, a) = 1

\* C4: every value with significand 0.0, whatever its exp field holds, is
\* ordered as the same zero: cmp 0 against another such value, -1 against a
\* positive value, +1 against a negative value.
C4_ZeroIsOneClass ==
    /\ efp64_is_zero(acc) => OrderedAsZero(acc, mem)
    /\ efp64_is_zero(mem) => OrderedAsZero(mem, acc)

\* C5: adding a zero-valued z (canonical or left by an earlier operation) to
\* a canonical a, in either order, gives a value equal to a under
\* efp64_is_equal.
C5_AddZeroIsIdentity ==
    last.op = "add" =>
        /\ (efp64_is_zero(last.args[1]) /\ IsCanonical(last.args[2]))
              => efp64_is_equal(last.res, last.args[2])
        /\ (efp64_is_zero(last.args[2]) /\ IsCanonical(last.args[1]))
              => efp64_is_equal(last.res, last.args[1])

\* C9: efp64_sqrt of a zero or negative value returns exactly the canonical
\* zero, and efp64_div by a zero divisor returns a value that efp64_is_valid
\* reports as invalid.
C9_InvalidOperandSentinel ==
    /\ (last.op = "sqrt" /\ (efp64_is_zero(last.args[1]) \/ IsNegative(last.args[1])))
          => last.res = efp64_zero
    /\ (last.op = "div" /\ efp64_is_zero(last.args[2]))
          => ~efp64_is_valid(last.res)

\* C9, reached: a finite non-zero value was divided by a zero divisor and
\* the result is an infinity
C9_SentinelReached ==
    /\ last.op = "div"
    /\ efp64_is_zero(last.args[2])
    /\ efp64_is_valid(last.args[1])
    /\ ~efp64_is_zero(last.args[1])
    /\ IsInf(last.res.fp)

(***************************************************************************)
(* SpecConv: conversion between native doubles and extended values.  A     *)
(* client converts a double to acc, may shift or negate acc, and converts  *)
(* acc back.                                                               *)
(***************************************************************************)
\* number of library calls in a run
MaxConvSteps == 2

\* largest fraction field
FracMax == NatSub(NatPow2(FP64_EXP_OFFSET), << 1 >>)

\* finite doubles: zeros, ones, 1.5, the largest double, the smallest normal
\* double, the largest and the smallest subnormal double
ConvDoubles ==
    { FpZero(0), FpZero(1), FpOne, FpNegate(FpOne),
      Fp(0, FP64_BIAS, NatPow2(FP64_EXP_OFFSET - 1)),
      Fp(0, FP64_EXP_MASK - 1, FracMax),
      Fp(1, 1, << >>),
      Fp(0, 0, FracMax),
      Fp(0, 0, << 1 >>) }

ConvPowers == { I64(EXP_MODULUS), I64(2 * (FP64_EXP_MASK + 1)), I64(-2 * (FP64_EXP_MASK + 1)) }

InitConv ==
    /\ \E d \in ConvDoubles :
          /\ acc = efp64_from_fp64(d)
          /\ src = [ok |-> TRUE, d |-> d]
          /\ last = Called("from_fp64", << d >>, efp64_from_fp64(d))
    /\ mem = efp64_zero
    /\ steps = 0
    /\ SeqIdle

ConvFromFp64 ==
    /\ steps < MaxConvSteps
    /\ \E d \in ConvDoubles :
          /\ acc' = efp64_from_fp64(d)
          /\ src' = [ok |-> TRUE, d |-> d]
          /\ last' = Called("from_fp64", << d >>, efp64_from_fp64(d))
    /\ steps' = steps + 1
    /\ UNCHANGED << mem, seqVars, ioVars >>

ConvScalePower2 ==
    /\ steps < MaxConvSteps
    /\ \E p \in ConvPowers :
          /\ acc' = efp64_scale_power2(acc, p)
          /\ last' = Called("scale_power2", << acc, p >>, efp64_scale_power2(acc, p))
    /\ src' = NoSrc
    /\ steps' = steps + 1
    /\ UNCHANGED << mem, seqVars, ioVars >>

ConvNegate ==
    /\ steps < MaxConvSteps
    /\ acc' = efp64_negate(acc)
    /\ last' = Called("negate", << acc >>, efp64_negate(acc))
    /\ src' = NoSrc
    /\ steps' = steps + 1
    /\ UNCHANGED << mem, seqVars, ioVars >>

ConvToFp64 ==
    /\ last.op # "to_fp64"
    /\ last' = Called("to_fp64", << acc >>, efp64_to_fp64(acc))
    /\ UNCHANGED << acc, mem, steps, src, seqVars, ioVars >>

NextConv ==
    \/ ConvFromFp64
    \/ ConvScalePower2
    \/ ConvNegate
    \/ ConvToFp64

SpecConv == InitConv /\ [][NextConv]_vars

\* C2: for every finite double d, zero, normal or subnormal,
\* efp64_to_fp64(efp64_from_fp64(d)) is d.
C2_RoundTrip ==
    (last.op = "to_fp64" /\ src.ok) => FpEq(last.res, src.d)

\* C6: efp64_to_fp64 returns a zero with the sign of the value when its full
\* exponent is below the native range, an infinity with the sign of the value
\* when it is above, and otherwise the double with the sign, the fraction and
\* the full exponent of the value.
C6_ToNativeSigned ==
    (last.op = "to_fp64" /\ efp64_is_valid(last.args[1])) =>
        /\ fp64_get_sign(last.res) = fp64_get_sign(last.args[1].fp)
        /\ IF fp64_exponent_below(efp64_full_exponent(last.args[1]))
           THEN FpIsZero(last.res)
           ELSE IF fp64_exponent_above(efp64_full_exponent(last.args[1]))
           THEN IsInf(last.res)
           ELSE /\ fp64_get_fraction(last.res) = fp64_get_fraction(last.args[1].fp)
                /\ fp64_get_exponent(last.res) = efp64_full_exponent(last.args[1])

(***************************************************************************)
(* SpecLog: efp64_log2d of powers of two.  A client shifts 1.0 by powers   *)
(* of two, canonicalizes, and takes the logarithm.                         *)
(***************************************************************************)
\* number of shifts in a run
MaxLogSteps == 3

\* the number of significand bits of a double
FP64_PRECISION == FP64_EXP_OFFSET + 1

LogPowers ==
    { I64(1), I64(FP64_EXP_MASK - FP64_BIAS), I64(-FP64_BIAS),
      IntMake(FALSE, NatPow2(FP64_PRECISION)), IntMake(TRUE, NatPow2(FP64_PRECISION)),
      IntMake(FALSE, NatPow2(INT64_BITS - 4)) }

InitLog ==
    /\ acc = efp64_from_fp64(FpOne)
    /\ last = Called("from_fp64", << FpOne >>, efp64_from_fp64(FpOne))
    /\ mem = efp64_zero
    /\ steps = 0
    /\ src = NoSrc
    /\ SeqIdle

LogScale ==
    /\ steps < MaxLogSteps
    /\ \E p \in LogPowers :
          /\ acc' = efp64_canonicalize(efp64_scale_power2(acc, p))
          /\ last' = Called("scale_power2", << acc, p >>,
                            efp64_canonicalize(efp64_scale_power2(acc, p)))
    /\ steps' = steps + 1
    /\ UNCHANGED << mem, src, seqVars, ioVars >>

LogCall ==
    /\ last.op # "log2d"
    /\ \/ FpLeq(efp64_zeroed_fraction(acc), FpZero(0))
       \/ FpEq(efp64_zeroed_fraction(acc), FpOne)
    /\ last' = Called("log2d", << acc >>, efp64_log2d(acc))
    /\ UNCHANGED << acc, mem, steps, src, seqVars, ioVars >>

NextLog == LogScale \/ LogCall

SpecLog == InitLog /\ [][NextLog]_vars

\* a is a positive power of two
IsPowerOfTwo(a) == a.fp.s = 0 /\ FpIsNormal(a.fp) /\ a.fp.f = << >>

\* K, for a = 2^K
ExponentOf(a) == IntAdd(a.exp, I64(a.fp.e - FP64_BIAS))

OutsideNative(k) ==
    IntLeq(I64(FP64_EXP_MASK - FP64_BIAS), k) \/ IntLeq(k, I64(-FP64_BIAS))

\* the finite double x is the integer k
FpIsInt(x, k) ==
    /\ FpIsZero(x) \/ FpIsSubnormal(x) \/ FpIsNormal(x)
    /\ IF FpExp(x) >= 0
       THEN IntMake(x.s = 1, NatShl(FpSig(x), FpExp(x))) = k
       ELSE /\ NatLowBits(FpSig(x), -FpExp(x)) = << >>
            /\ IntMake(x.s = 1, NatShr(FpSig(x), -FpExp(x))) = k

\* the last call is efp64_log2d of a canonical 2^K with K outside the native
\* exponent range
LogOfLargePower ==
    /\ last.op = "log2d"
    /\ IsCanonical(last.args[1])
    /\ IsPowerOfTwo(last.args[1])
    /\ OutsideNative(ExponentOf(last.args[1]))

\* C10, as stated: efp64_log2d of a canonical 2^K, K >= 1024 or K <= -1023, up
\* to the largest exponents the exp field holds, returns exactly K.
C10_Log2ExactForAllK ==
    LogOfLargePower => FpIsInt(last.res, ExponentOf(last.args[1]))

\* C10, amended: efp64_log2d of a canonical 2^K, K >= 1024 or K <= -1023,
\* returns the double nearest to K, which is exactly K when |K| <= 2^53.
C10_Log2ExactUpTo2Pow53 ==
    LogOfLargePower =>
        /\ last.res = FpFromInt(ExponentOf(last.args[1]))
        /\ NatLeq(ExponentOf(last.args[1]).mag, NatPow2(FP64_PRECISION))
              => FpIsInt(last.res, ExponentOf(last.args[1]))

\* C10, reached: the logarithm of 2^K for K = -(2^53), returned exactly
C10_LargePowerReached ==
    /\ LogOfLargePower
    /\ ExponentOf(last.args[1]) = IntMake(TRUE, NatPow2(FP64_PRECISION))
    /\ FpIsInt(last.res, ExponentOf(last.args[1]))

(***************************************************************************)
(* SpecSeq: a client that fills an array and calls the sequence products   *)
(* on it, and then divides the product by every element again.  One step   *)
(* is one iteration of the loop of the running function.                   *)
(***************************************************************************)
\* val[i], i counted from 0
ValAt(i) == val.pat[(i % Len(val.pat)) + 1]

Begin(fn) == call.fn = "none" /\ todo # << >> /\ Head(todo) = fn

Enter(fr) ==
    /\ call' = fr
    /\ todo' = Tail(todo)
    /\ UNCHANGED << val, out, objVars, ioVars >>

ReturnAt(ret, v) == out' = [out EXCEPT ![ret] = Some(v)]

Return(v) ==
    /\ ReturnAt(call.ret, v)
    /\ call' = NoCall
    /\ UNCHANGED << val, todo, objVars, ioVars >>

Iterate(i, count, prod, result) ==
    /\ call' = Frame(call.fn, call.ret, i, count, prod, result)
    /\ UNCHANGED << val, todo, out, objVars, ioVars >>

\* efp64_mul_seq_slow
CallSlow ==
    /\ Begin("slow")
    /\ Enter(Frame("slow", "slow", 0, 0, << >>, efp64_from_fp64(FpOne)))

SlowStep ==
    /\ call.fn = "slow"
    /\ call.i < val.len
    /\ Iterate(call.i + 1, 0, << >>, efp64_mul(call.result, ValAt(call.i)))

SlowReturn ==
    /\ call.fn = "slow"
    /\ call.i >= val.len
    /\ Return(call.result)

\* efp64_mul_seq_x1
EnterX1(ret) ==
    IF val.len = 0
    THEN /\ ReturnAt(ret, efp64_from_fp64(FpOne))
         /\ todo' = Tail(todo)
         /\ UNCHANGED << val, call, objVars, ioVars >>
    ELSE Enter(Frame("x1", ret, 1, 1, << >>, ValAt(0)))

CallX1 == Begin("x1") /\ EnterX1("x1")

X1Counted(count, result) ==
    IF count > EFP64_MAX_MUL
    THEN Iterate(call.i + 1, 0, << >>, efp64_canonicalize(result))
    ELSE Iterate(call.i + 1, count, << >>, result)

X1Step ==
    /\ call.fn = "x1"
    /\ call.i < val.len
    /\ X1Counted(call.count + 1, efp64_quick_mul(call.result, ValAt(call.i)))

X1Return ==
    /\ call.fn = "x1"
    /\ call.i >= val.len
    /\ Return(efp64_canonicalize(call.result))

\* efp64_mul_seq_x4
X4Lanes == 4

CanonicalizeAll(prod) == [j \in 1..X4Lanes |-> efp64_canonicalize(prod[j])]

EnterX4(ret) ==
    Enter(Frame("x4", ret, X4Lanes, 0, [j \in 1..X4Lanes |-> ValAt(j - 1)], efp64_zero))

CallX4 ==
    /\ Begin("x4")
    /\ val.len >= X4Lanes
    /\ EnterX4("x4")

\* the client does not call efp64_mul_seq_x4 on fewer than four elements
SkipX4 ==
    /\ Begin("x4")
    /\ val.len < X4Lanes
    /\ todo' = Tail(todo)
    /\ UNCHANGED << val, call, out, objVars, ioVars >>

X4Counted(count, prod) ==
    IF count > EFP64_MAX_MUL
    THEN Iterate(call.i + X4Lanes, 0, CanonicalizeAll(prod), call.result)
    ELSE Iterate(call.i + X4Lanes, count, prod, call.result)

X4Step ==
    /\ call.fn = "x4"
    /\ call.i <= val.len - X4Lanes
    /\ X4Counted(call.count + 1,
                 [j \in 1..X4Lanes |-> efp64_quick_mul(call.prod[j], ValAt(call.i + j - 1))])

RECURSIVE X4Tail(_, _)
X4Tail(result, i) ==
    IF i < val.len
    THEN X4Tail(efp64_quick_mul(result, ValAt(i)), i + 1)
    ELSE result

RECURSIVE X4Combine(_, _, _)
X4Combine(result, prod, j) ==
    IF j <= X4Lanes
    THEN X4Combine(efp64_quick_mul(result, prod[j]), prod, j + 1)
    ELSE result

\* result after the loop over the tail, before the last efp64_canonicalize
X4Unrounded(prod) == X4Tail(X4Combine(prod[1], prod, 2), call.i)

\* the same, from the accumulators as the main loop leaves them
X4Epilogue ==
    X4Unrounded(IF call.count * X4Lanes > EFP64_MAX_MUL
                THEN CanonicalizeAll(call.prod)
                ELSE call.prod)

X4Return ==
    /\ call.fn = "x4"
    /\ call.i > val.len - X4Lanes
    /\ Return(efp64_canonicalize(X4Epilogue))

\* efp64_mul_seq
X4Threshold == 8

CallMulSeq ==
    /\ Begin("mul_seq")
    /\ IF val.len < X4Threshold THEN EnterX1("mul_seq") ELSE EnterX4("mul_seq")

\* the client divides the product of efp64_mul_seq by every element
CallDiv ==
    /\ Begin("div")
    /\ out.mul_seq.ok
    /\ Enter(Frame("div", "div", 0, 0, << >>, out.mul_seq.v))

DivStep ==
    /\ call.fn = "div"
    /\ call.i < val.len
    /\ Iterate(call.i + 1, 0, << >>, efp64_div(call.result, ValAt(call.i)))

DivReturn ==
    /\ call.fn = "div"
    /\ call.i >= val.len
    /\ Return(call.result)

\* the longest of the short arrays
MaxLen == 19

\* 1.5 and -1.25 * 2^10
OneAndHalf == Fp(0, FP64_BIAS, NatPow2(FP64_EXP_OFFSET - 1))
MinusTenBits == Fp(1, FP64_BIAS + 10, NatPow2(FP64_EXP_OFFSET - 2))

\* the short arrays repeat one of these
SeqPatterns ==
    { << efp64_from_fp64(Power2(FP64_SIGN_OFFSET)) >>,
      << efp64_from_fp64(OneAndHalf), efp64_from_fp64(MinusTenBits) >> }

\* the long array holds NumFactors copies of 2^BigExponent
NumFactors == 10000
BigExponent == 500

InitSeq ==
    /\ acc = efp64_zero
    /\ mem = efp64_zero
    /\ last = Called("from_fp64", << FpZero(0) >>, efp64_zero)
    /\ steps = 0
    /\ src = NoSrc
    /\ call = NoCall
    /\ lg = NoLog
    /\ sc = NoScan
    /\ out = [slow |-> None, x1 |-> None, x4 |-> None, mul_seq |-> None, div |-> None]
    /\ \/ /\ val \in [pat : SeqPatterns, len : 0..MaxLen]
          /\ todo = << "slow", "x1", "x4", "mul_seq" >>
       \/ /\ val = [pat |-> << efp64_from_fp64(Power2(BigExponent)) >>, len |-> NumFactors]
          /\ todo \in { << "mul_seq", "div" >>, << "slow" >> }

NextSeq ==
    \/ CallSlow \/ SlowStep \/ SlowReturn
    \/ CallX1 \/ X1Step \/ X1Return
    \/ CallX4 \/ SkipX4 \/ X4Step \/ X4Return
    \/ CallMulSeq
    \/ CallDiv \/ DivStep \/ DivReturn

SpecSeq == InitSeq /\ [][NextSeq]_vars

\* the significand of a, as the integer 2^52 * (1 + fraction)
Significand(a) == FpSig(efp64_zeroed_fraction(a))

NatDistance(x, y) == IF NatLess(x, y) THEN NatSub(y, x) ELSE NatSub(x, y)

\* 10^12
TenTo12 == NatMul(NatFromInt(1000000), NatFromInt(1000000))

\* |x - y| <= 1e-12 * y, for the significands x and y
WithinRelative(x, y) == NatLeq(NatMul(NatDistance(x, y), TenTo12), y)

\* every element of the array is a power of two, up to sign
AllPowersOfTwo == \A k \in 1..Len(val.pat) : val.pat[k].fp.f = << >>

\* the product a agrees with the reference product b
Agrees(a, b) ==
    /\ efp64_full_exponent(a) = efp64_full_exponent(b)
    /\ a.fp.s = b.fp.s
    /\ WithinRelative(Significand(a), Significand(b))
    /\ AllPowersOfTwo => efp64_is_equal(a, b)

\* C7: on an array of canonical non-zero values of any length, the results of
\* efp64_mul_seq_x1, of efp64_mul_seq_x4 (four elements or more) and of
\* efp64_mul_seq agree with that of efp64_mul_seq_slow: the same full exponent,
\* significands within 1e-12 relative, and equal when the significands are
\* powers of two.
C7_SequenceProductsAgree ==
    \A fn \in { "x1", "x4", "mul_seq" } :
        (out.slow.ok /\ out[fn].ok) => Agrees(out[fn].v, out.slow.v)

\* the array of NumFactors copies of 2^BigExponent
BigInput ==
    /\ val.len = NumFactors
    /\ val.pat = << efp64_from_fp64(Power2(BigExponent)) >>

\* r is 2^(BigExponent * NumFactors), valid and canonical, and converts to
\* +infinity
IsBigProduct(r) ==
    /\ efp64_is_valid(r)
    /\ IsCanonical(r)
    /\ efp64_full_exponent(r) = I64(BigExponent * NumFactors)
    /\ efp64_to_fp64(r) = FpInf(0)

\* no local of the running function has overflowed to infinity or NaN
LocalsValid ==
    /\ efp64_is_valid(call.result)
    /\ \A j \in DOMAIN call.prod : efp64_is_valid(call.prod[j])

\* C8: the product of 10,000 copies of 2^500, by efp64_mul_seq or by repeated
\* efp64_mul, is valid and canonical with full exponent 5,000,000, no
\* intermediate value overflowing; efp64_to_fp64 of it is +infinity; dividing
\* it by 2^500 10,000 times with efp64_div gives a value equal to 1.0.
C8_LargeProduct ==
    BigInput =>
        /\ LocalsValid
        /\ out.mul_seq.ok => IsBigProduct(out.mul_seq.v)
        /\ out.slow.ok => IsBigProduct(out.slow.v)
        /\ out.div.ok => efp64_is_equal(out.div.v, efp64_from_fp64(FpOne))

\* C8, reached: the product has been computed and divided back to 1.0
C8_DividedBackToOne ==
    /\ BigInput
    /\ out.mul_seq.ok
    /\ efp64_full_exponent(out.mul_seq.v) = I64(BigExponent * NumFactors)
    /\ out.div.ok
    /\ out.div.v = efp64_from_fp64(FpOne)

\* C13: while efp64_mul_seq_x4 runs on eight or more canonical non-zero
\* values, no accumulator, nor their combined product with the tail elements
\* multiplied in, overflows the double before efp64_canonicalize is applied.
C13_X4NoNativeOverflow ==
    (call.fn = "x4" /\ val.len >= X4Threshold) =>
        /\ \A j \in 1..X4Lanes : efp64_is_valid(call.prod[j])
        /\ call.i > val.len - X4Lanes => efp64_is_valid(X4Epilogue)

\* floor(x / 2)
IntFloorHalf(x) ==
    IF x.neg /\ NatIsOdd(x.mag) THEN IntMake(TRUE, NatShr(NatAdd(x.mag, << 1 >>), 1))
    ELSE IntMake(x.neg, NatShr(x.mag, 1))

\* the square root of a with an odd exp: exp halved toward negative infinity
\* and the factor of two left over taken into the significand
SqrtAbsorbingParity(a) ==
    efp64_canonicalize(efp64_collect(FpSqrt(FpMul(a.fp, Power2(1))), IntFloorHalf(a.exp)))

\* the last call is efp64_sqrt of a positive value with an odd exp field
SqrtOfOddExponent ==
    /\ last.op = "sqrt"
    /\ efp64_is_valid(last.args[1])
    /\ ~efp64_is_zero(last.args[1])
    /\ last.args[1].fp.s = 0
    /\ NatIsOdd(last.args[1].exp.mag)

\* C16: efp64_sqrt of a positive value whose exp field is odd (after
\* efp64_scale_power2 by an odd power) is the square root of the value: exp is
\* halved toward negative infinity and the leftover factor of two is absorbed
\* into the significand before its square root is taken.
C16_SqrtOfOddExponent ==
    SqrtOfOddExponent =>
        /\ efp64_is_equal(last.res, SqrtAbsorbingParity(last.args[1]))
        /\ efp64_full_exponent(last.res) = IntFloorHalf(efp64_full_exponent(last.args[1]))

(***************************************************************************)
(* SpecQuick: efp64_add, efp64_mul and efp64_div applied to pairs of        *)
(* canonical non-zero operands.                                            *)
(***************************************************************************)
\* embedded exponents of the operands: the ends and the middle of the window
QuickExponents == { 0, 1, EXP_MODULUS - 1 }

\* exp fields of the operands: adjacent windows, a far one, and the highest
QuickExps ==
    { I64(0), I64(EXP_MODULUS), I64(-EXP_MODULUS),
      IntSub(INT64_MAX, I64(EXP_MODULUS - 1)) }

QuickOperands ==
    { efp64_collect(Fp(s, FP64_BIAS + e, f), x) :
        s \in { 0, 1 }, e \in QuickExponents, f \in { << >>, FracMax }, x \in QuickExps }
    \cup { efp64_collect(Fp(0, FP64_BIAS + e, << 1 >>), I64(0)) : e \in QuickExponents }

InitQuick ==
    /\ acc \in QuickOperands
    /\ mem \in { a \in QuickOperands : a.fp.s = 0 \/ a.exp = I64(0) }
    /\ last = Called("from_fp64", << FpZero(0) >>, efp64_zero)
    /\ steps = 0
    /\ src = NoSrc
    /\ SeqIdle

QuickApply(op, nval, res) ==
    /\ last.op = "from_fp64"
    /\ last' = Called(op, << acc, mem, nval >>, res)
    /\ UNCHANGED << acc, mem, steps, src, seqVars, ioVars >>

QuickAdd == QuickApply("add", efp64_add_nval(acc, mem), efp64_add(acc, mem))

QuickMul == QuickApply("mul", efp64_quick_mul(acc, mem), efp64_mul(acc, mem))

QuickDiv == QuickApply("div", efp64_div_nval(acc, mem), efp64_div(acc, mem))

NextQuick == QuickAdd \/ QuickMul \/ QuickDiv

SpecQuick == InitQuick /\ [][NextQuick]_vars

\* the last call canonicalized a non-zero intermediate of canonical non-zero
\* operands with a quick canonicalization
QuickCanonicalized ==
    /\ last.op \in { "add", "mul", "div" }
    /\ IsCanonicalNonZero(last.args[1]) /\ ~efp64_is_zero(last.args[1])
    /\ IsCanonicalNonZero(last.args[2]) /\ ~efp64_is_zero(last.args[2])
    /\ ~efp64_is_zero(last.args[3])

\* C14: in efp64_add, efp64_mul and efp64_div of canonical non-zero operands,
\* the quick canonicalization returns what efp64_canonicalize returns on the
\* same intermediate value, whenever that value is not zero.
C14_QuickIsFullCanonicalize ==
    QuickCanonicalized => last.res = efp64_canonicalize(last.args[3])

\* C14, reached: a difference that cancels to the last place of an operand in
\* the window above, brought back by the two-sided quick canonicalization
C14_CancellationReached ==
    /\ QuickCanonicalized
    /\ last.op = "add"
    /\ last.args[1].exp # last.args[2].exp
    /\ FpLess(Fabs(last.args[3].fp), FpOne)
    /\ IsCanonicalNonZero(last.res)
    /\ last.res # last.args[3]

(***************************************************************************)
(* SpecCanon: efp64_canonicalize applied to values assembled from any      *)
(* double and any exp field (EFP64(fp64_t d, int64_t e)).                   *)
(***************************************************************************)
\* embedded exponents, from the smallest normal one to the largest
CanonExponents ==
    { 1 - FP64_BIAS, -EXP_MODULUS - 1, -1, 0, EXP_MODULUS - 1, EXP_MODULUS,
      3 * EXP_MODULUS + 1, FP64_MAX_EXPONENT }

\* exp fields: in and off the multiples of EXP_MODULUS, of both signs, and the
\* ends of int64_t
CanonExps ==
    { I64(0), I64(1), I64(-1), I64(EXP_MODULUS), I64(-EXP_MODULUS - 1),
      I64(-FP64_EXP_MASK), INT64_MAX, INT64_MIN }

CanonInputs ==
    { efp64_collect(Fp(s, FP64_BIAS + e, f), x) :
        s \in { 0, 1 }, e \in CanonExponents, f \in { << >>, << 1 >>, FracMax },
        x \in CanonExps }
    \cup { efp64_collect(FpZero(s), x) : s \in { 0, 1 }, x \in CanonExps }

InitCanon ==
    /\ acc \in CanonInputs
    /\ mem = efp64_zero
    /\ last = Called("collect", << acc.fp, acc.exp >>, acc)
    /\ steps = 0
    /\ src = NoSrc
    /\ SeqIdle

Canonicalize ==
    /\ last.op = "collect"
    /\ last' = Called("canonicalize", << acc >>, efp64_canonicalize(acc))
    /\ UNCHANGED << acc, mem, steps, src, seqVars, ioVars >>

NextCanon == Canonicalize

SpecCanon == InitCanon /\ [][NextCanon]_vars

\* exp + embedded exponent of a, as an integer of any size
TrueFullExponent(a) == IntAdd(a.exp, I64(a.fp.e - FP64_BIAS))

\* C15: efp64_canonicalize of a value with a non-zero normal finite significand,
\* whatever its exp field and embedded exponent, is canonical with the same
\* sign, fraction and full exponent (exp + embedded exponent); of a value with
\* a zero significand it is the canonical zero.
C15_CanonicalizeAnyValue ==
    last.op = "canonicalize" =>
        /\ FpIsNormal(last.args[1].fp) =>
              /\ IsCanonicalNonZero(last.res)
              /\ last.res.fp.s = last.args[1].fp.s
              /\ last.res.fp.f = last.args[1].fp.f
              /\ TrueFullExponent(last.res) = TrueFullExponent(last.args[1])
        /\ FpIsZero(last.args[1].fp) => last.res = efp64_zero

\* C15, amended: the same, for the values whose full exponent exp + embedded
\* exponent is an int64_t.
C15_CanonicalizeRepresentable ==
    (last.op = "canonicalize" /\ InInt64(TrueFullExponent(last.args[1])))
        => C15_CanonicalizeAnyValue

\* C15, reached: a negative value with the smallest normal embedded exponent
\* under an odd negative exp field, made canonical at the same full exponent
C15_FarDriftReached ==
    /\ last.op = "canonicalize"
    /\ last.args[1].fp.s = 1
    /\ last.args[1].fp.e = 1
    /\ last.args[1].fp.f = FracMax
    /\ last.args[1].exp = I64(-EXP_MODULUS - 1)
    /\ IsCanonicalNonZero(last.res)
    /\ efp64_full_exponent(last.res) = I64(-EXP_MODULUS - FP64_BIAS)

(***************************************************************************)
(* SpecLoop: efp64_log2d, one step for each iteration of its loop.  The    *)
(* library's log2 of the zeroed fraction is one of LibraryLogs.            *)
(***************************************************************************)
\* the iterations the model follows the loop for
MaxIters == 70

\* x - y on doubles
FpSub(x, y) == FMA64(x, FpOne, FpNegate(y))

\* what log2(d), or -log2(d / 2), may be for 1 < d < 2: zero by underflow,
\* the smallest normal double, 1/2, 3/4, the double below 1, and 1
LibraryLogs ==
    { FpZero(0), Fp(0, 1, << >>), Fp(0, FP64_BIAS - 1, << >>),
      Fp(0, FP64_BIAS - 1, NatPow2(FP64_EXP_OFFSET - 1)), Fp(0, FP64_BIAS - 1, FracMax),
      FpOne }

\* the arguments: full exponents at the ends of the native range, just outside
\* it, far from it and at the ends of int64_t, under several significands
LoopExps ==
    { I64(0), I64(FP64_EXP_MASK - FP64_BIAS), I64(-FP64_BIAS - 1), I64(-FP64_EXP_MASK - 1),
      IntMake(FALSE, NatPow2(INT64_BITS - 4)), IntMake(TRUE, NatPow2(INT64_BITS - 4)),
      IntSub(INT64_MAX, I64(EXP_MODULUS - 1)), INT64_MIN }

LoopInputs ==
    { efp64_collect(Fp(s, FP64_BIAS + e, f), x) :
        s \in { 0, 1 }, e \in { 0, 1, EXP_MODULUS - 1 }, f \in { << >>, << 1 >>, FracMax },
        x \in LoopExps }
    \cup { efp64_zero }

InitLoop ==
    /\ acc \in LoopInputs
    /\ mem = efp64_zero
    /\ last = Called("collect", << acc.fp, acc.exp >>, acc)
    /\ steps = 0
    /\ src = NoSrc
    /\ val = [pat |-> << >>, len |-> 0]
    /\ todo = << >>
    /\ call = NoCall
    /\ out = [slow |-> None, x1 |-> None, x4 |-> None, mul_seq |-> None, div |-> None]
    /\ lg = NoLog
    /\ sc = NoScan

\* a test of the bit above the 64 of log_val, which is never set
LogMsbBeyond(log_val) == NatBitLen(log_val) > INT64_BITS

\* (log_val >> 63) != 0
LogMsb(log_val) == NatBitLen(log_val) >= INT64_BITS

\* the call returns res without entering the loop
LogReturn(res) ==
    lg' = LogFrame("done", I64(0), << >>, FpZero(0), FpZero(0), FALSE, 0, FALSE, res)

\* the locals as the loop finds them
LogStart(e, dlog, log_weight) ==
    lg' = LogFrame("loop", e, e.mag, dlog, log_weight, FpIsZero(dlog), 0, FALSE, FpZero(0))

\* efp64_log2d up to its loop
LogEnter ==
    /\ lg.pc = "none"
    /\ IF FpLeq(efp64_zeroed_fraction(acc), FpZero(0)) THEN LogReturn(FpZero(0))
       ELSE IF FpEq(efp64_zeroed_fraction(acc), FpOne)
            THEN LogReturn(FpFromInt(efp64_full_exponent(acc)))
       ELSE IF ~fp64_exponent_below(efp64_full_exponent(acc))
               /\ ~fp64_exponent_above(efp64_full_exponent(acc))
            THEN LogReturn(LibraryLog2)
       ELSE \E dlog \in LibraryLogs :
               IF efp64_full_exponent(acc).neg
               THEN LogStart(I64Sub(IntNeg(efp64_full_exponent(acc)), I64(1)),
                             dlog, FpNegate(FpOne))
               ELSE LogStart(efp64_full_exponent(acc), dlog, FpOne)
    /\ UNCHANGED << objVars, seqVars, sc >>

\* log_val and dlog after log_val *= 2; dlog *= 2; and the injection of a bit
LogInjected(doubled, dlog) ==
    IF FpLeq(FpOne, dlog)
    THEN << NatLowBits(NatAdd(doubled, << 1 >>), INT64_BITS), FpSub(dlog, FpOne),
            LogMsb(NatShr(NatAdd(doubled, << 1 >>), 1)) >>
    ELSE << NatLowBits(doubled, INT64_BITS), dlog, LogMsb(NatShr(doubled, 1)) >>

LogIterated(nxt) ==
    lg' = [lg EXCEPT !.log_val = nxt[1], !.dlog = nxt[2],
                     !.log_weight = FpMul(lg.log_weight, Fp(0, FP64_BIAS - 1, << >>)),
                     !.iters = lg.iters + 1,
                     !.wrapped = lg.wrapped \/ nxt[3]]

\* one iteration of the loop
LogLoopStep ==
    /\ lg.pc = "loop"
    /\ ~LogMsb(lg.log_val)
    /\ lg.iters < MaxIters
    /\ LogIterated(LogInjected(NatShl(lg.log_val, 1), FpMul(lg.dlog, Power2(1))))
    /\ UNCHANGED << objVars, seqVars, sc >>

\* log_val with its last bit set to break a tie
LogSticky(log_val) == IF NatIsOdd(log_val) THEN log_val ELSE NatAdd(log_val, << 1 >>)

\* the end of the loop and the return
LogExit ==
    /\ lg.pc = "loop"
    /\ LogMsb(lg.log_val)
    /\ lg' = [lg EXCEPT !.pc = "done",
                        !.res = FpMul(FpRound(0, IF lg.uflow \/ ~FpIsZero(lg.dlog)
                                                 THEN LogSticky(lg.log_val)
                                                 ELSE lg.log_val, 0, FALSE),
                                      lg.log_weight)]
    /\ UNCHANGED << objVars, seqVars, sc >>

NextLoop == LogEnter \/ LogLoopStep \/ LogExit

SpecLoop == InitLoop /\ [][NextLoop]_vars

\* the loop of the running efp64_log2d has been entered
LoopEntered == lg.pc = "loop" \/ (lg.pc = "done" /\ lg.e # I64(0))

\* the doublings log_val is away from having its most significant bit set
LoopDistance(v) == INT64_BITS - NatBitLen(v)

\* in the loop and after it: the integer part it started from, the number of
\* iterations so far, and log_val.  Every iteration brings log_val one
\* doubling nearer to its exit, so the loop ends when iters reaches the
\* distance it started at.
LoopBounded ==
    LoopEntered =>
        /\ IntLeq(I64(FP64_BIAS - 1), lg.e)
        /\ lg.log_val # << >>
        /\ ~lg.wrapped
        /\ lg.iters + LoopDistance(lg.log_val) = LoopDistance(lg.e.mag)
        /\ LoopDistance(lg.log_val) >= 0
        /\ lg.iters <= INT64_BITS - 1
        /\ lg.iters < MaxIters
        /\ lg.pc = "done" => LogMsb(lg.log_val)

\* C17: the loop of efp64_log2d is entered only with a non-zero integer part
\* (e >= 1024, or e <= -1023 mapped to -(e+1) >= 1022), runs at most 63
\* iterations and terminates, and leaves log_val with its most significant bit
\* set, without having wrapped around.
C17_LoopTerminates == LoopBounded

\* C17, reached: the loop has run its 54 iterations from e = -1023, mapped to
\* 1022, and has returned
C17_LongestLoopReached ==
    /\ lg.pc = "done"
    /\ efp64_full_exponent(acc) = I64(-FP64_BIAS)
    /\ lg.e = I64(FP64_BIAS - 1)
    /\ lg.iters = INT64_BITS - 10
    /\ LogMsb(lg.log_val)

(***************************************************************************)
(* SpecScan: efp64_sscanf and efp64_fscanf applied to one text             *)
(***************************************************************************)
\* n copies of the character c
Repeated(c, n) == [i \in 1..n |-> c]

ScanMantissas ==
    { << >>, << "1" >>, << "1", "2" >>, << "1", ".", "5" >>, << ".", "5" >>, << "5", "." >>,
      << "-", "3" >>, << "+", "7" >>, << "0" >>, << "." >>, << "z" >>, << "1", "z" >>,
      << " ", "2" >> }

ScanExponents ==
    { << >>, << "e" >>, << "e", "2" >>, << "E", "-", "1" >>, << "e", "z" >>,
      << "e", "+", "1", "0" >>, << "E", "4", "0", "0" >> }

\* texts as long as the buffers, one character shorter and a few longer
ScanLongTexts ==
    { Repeated(c, n) : c \in { "1", "z" }, n \in (SSCANF_BUF - 1)..(SSCANF_BUF + 2) }
    \cup { Repeated("1", n) : n \in (FSCANF_BUF - 1)..(FSCANF_BUF + 2) }

ScanTexts == { m \o e : m \in ScanMantissas, e \in ScanExponents } \cup ScanLongTexts

InitScan ==
    /\ acc = efp64_zero
    /\ mem = efp64_zero
    /\ last = Called("zero", << >>, efp64_zero)
    /\ steps = 0
    /\ src = NoSrc
    /\ val = [pat |-> << >>, len |-> 0]
    /\ todo = << >>
    /\ call = NoCall
    /\ out = [slow |-> None, x1 |-> None, x4 |-> None, mul_seq |-> None, div |-> None]
    /\ lg = NoLog
    /\ \E t \in ScanTexts : sc = ScanFrame("text", "none", t, -1, -1, 0, efp64_zero)

\* A store one past the end of buf is undefined: the call may go on as if buf
\* were longer, or may never return.
ScanOutcomes(fn, text, fnul, st) ==
    { ScanFrame("done", fn, text, st.nul, fnul, st.ret, st.res) }
    \cup IF st.nul >= SSCANF_BUF \/ fnul >= FSCANF_BUF
         THEN { ScanFrame("fault", fn, text, st.nul, fnul, sc.ret, sc.res) }
         ELSE { }

\* efp64_sscanf(text, &res)
CallSscanf ==
    /\ sc.pc = "text"
    /\ sc' \in ScanOutcomes("sscanf", sc.text, -1, efp64_sscanf(sc.text))
    /\ UNCHANGED << objVars, seqVars, lg >>

\* efp64_fscanf(infile, &res), infile holding text
CallFscanf ==
    /\ sc.pc = "text"
    /\ sc' \in ScanOutcomes("fscanf", sc.text, FscanfCopy(sc.text, FscanfStart(sc.text), 0),
                            efp64_sscanf(FscanfBuf(sc.text)))
    /\ UNCHANGED << objVars, seqVars, lg >>

NextScan == CallSscanf \/ CallFscanf

SpecScan == InitScan /\ [][NextScan]_vars

\* the position after [+|-] digits [. digits] from p on, or -1 when there is
\* no digit
AfterNumber(s, p, dot) ==
    IF CharAt(s, dot) # "." THEN (IF dot > p THEN dot ELSE -1)
    ELSE IF dot - p + ScanDigits(s, dot + 1, << >>, 0)[3] = 0 THEN -1
    ELSE ScanDigits(s, dot + 1, << >>, 0)[1]

AfterSigned(s, p) == AfterNumber(s, p, ScanDigits(s, p, << >>, 0)[1])

AfterMantissa(s) == AfterSigned(s, IF IsSign(CharAt(s, 0)) THEN 1 ELSE 0)

\* [+|-] digits, and nothing more, from p on
IsExponentText(s, p) ==
    /\ ScanDigits(s, IF IsSign(CharAt(s, p)) THEN p + 1 ELSE p, << >>, 0)[3] > 0
    /\ ScanDigits(s, IF IsSign(CharAt(s, p)) THEN p + 1 ELSE p, << >>, 0)[1] = Len(s)

\* the text is mantissa[e|E exponent]
MatchesSyntax(s) ==
    /\ AfterMantissa(s) >= 0
    /\ \/ AfterMantissa(s) = Len(s)
       \/ /\ CharAt(s, AfterMantissa(s)) \in { "e", "E" }
          /\ IsExponentText(s, AfterMantissa(s) + 1)

HasExponent(s) == AfterMantissa(s) < Len(s)

\* M and E of a text that matches the syntax
TextMantissa(s) == ScanDouble(SubSeq(s, 1, AfterMantissa(s))).v

TextExponent(s) == ScanLongLong(TextFrom(s, AfterMantissa(s) + 1)).v

\* the canonical extended value of M x 10^E
TextValue(s) ==
    IF HasExponent(s)
    THEN efp64_canonicalize(efp64_mul(efp64_from_fp64(TextMantissa(s)), ep10(TextExponent(s))))
    ELSE efp64_from_fp64(TextMantissa(s))

SscanfReturned == sc.fn = "sscanf" /\ sc.pc = "done"

\* C11: efp64_sscanf given a text M or MeE that matches the syntax
\* mantissa[e|E exponent] returns 1 and stores the canonical extended value
\* of M x 10^E; for a text with no exponent part that is efp64_from_fp64(M).
C11_SscanfValue ==
    (sc.fn = "sscanf" /\ MatchesSyntax(sc.text)) =>
        /\ sc.pc = "done"
        /\ sc.ret = 1
        /\ IsCanonical(sc.res)
        /\ efp64_is_equal(sc.res, TextValue(sc.text))

\* the position of the first e or E of the text, or its length
RECURSIVE ExponentMark(_, _)
ExponentMark(s, p) ==
    IF CharAt(s, p) \in { NUL, "e", "E" } THEN p ELSE ExponentMark(s, p + 1)

\* no number at the start of the text before its first e or E
MantissaFails(s) == ~ScanDouble(SubSeq(s, 1, ExponentMark(s, 0))).ok

\* an e or E, and no integer after it
ExponentFails(s) ==
    /\ ExponentMark(s, 0) < Len(s)
    /\ ~ScanLongLong(TextFrom(s, ExponentMark(s, 0) + 1)).ok

C18_WritesInsideBuffers ==
    /\ sc.nul < SSCANF_BUF
    /\ sc.fnul < FSCANF_BUF

=============================================================================
